---- MODULE Spec2Model ----
(***************************************************************************)
(* git-journal: GitJournal::new, GitJournal::parse_log and                 *)
(* GitJournal::print_log of src/lib.rs as a state machine.                 *)
(*                                                                         *)
(* The repository is a linear history of commits 1..MaxCommits (1 is the   *)
(* root, MaxCommits is HEAD); a commit's id is its number and its time is  *)
(* its number, so that a walk sorted by time visits HEAD first.  Text is a *)
(* sequence of characters, so that str::contains is a real substring test. *)
(***************************************************************************)
EXTENDS Integers, Sequences, FiniteSets, TLC

\* Number of commits of the repository.
MaxCommits == 3
\* Largest max_tags_count a caller passes.
MaxTagsCount == 2
\* Largest number of parse_log calls on one journal (SpecRepeat).
MaxCalls == 2

(***************************************************************************)
(* Text                                                                    *)
(***************************************************************************)
unreleased_str == <<"U", "n", "r", "e", "l", "e", "a", "s", "e", "d">>

\* The tag names of the repository, in the order tag_names() lists them.
TagNames == << unreleased_str, <<"v", "1">>, <<"v", "2", "r", "c">> >>

\* The tag_skip_pattern arguments: the empty default, "rc" and "x".
SkipPatterns == { <<>>, <<"r", "c">>, <<"x">> }

\* str::contains: pat occurs in s as a contiguous substring.
Contains(s, pat) ==
    \E i \in 0..(Len(s) - Len(pat)) : SubSeq(s, i + 1, i + Len(pat)) = pat

(***************************************************************************)
(* The repository behind the journal                                       *)
(***************************************************************************)
Oids == 1..MaxCommits
HEAD == MaxCommits

Categories == <<"feat", "fix">>

\* A commit message: "<category>: <subject>" (the subject is unique to the
\* commit), a message that violates the summary grammar, or no message at
\* all (Commit::message() is None when the text is not valid UTF-8).
GoodMessage(c, cat) == <<cat, ":", ToString(c)>>
BadMessage(c) == <<"oops", ToString(c)>>
NoMessage == <<>>

\* commit.time(): the history is linear, later commits are younger.
CommitTime(oid) == oid
\* UTC::today(): the day of the run, after every commit.
Today == MaxCommits + 1


\* Repository::tag_names / revparse_single / into_tag, as GitJournal::new
\* uses them: refs[k] is the commit the annotated tag TagNames[k] points
\* to, 0 when the repository has no such annotated tag.
RECURSIVE NewTags(_, _)
NewTags(refs, k) ==
    IF k > Len(TagNames) THEN <<>>
    ELSE IF refs[k] # 0
         THEN << <<refs[k], TagNames[k]>> >> \o NewTags(refs, k + 1)
         ELSE NewTags(refs, k + 1)

\* The revision_range arguments: a single commit, a range from..to, and a
\* range that does not resolve.
SingleRev(c) == [kind |-> "single", from |-> c, to |-> c]
RangeRev(a, b) == [kind |-> "range", from |-> a, to |-> b]
InvalidRev == [kind |-> "invalid", from |-> 0, to |-> 0]
RevisionRanges == { SingleRev(HEAD), RangeRev(1, HEAD), RangeRev(HEAD, HEAD), InvalidRev }

\* Mutant of Revparse: a range that does not resolve is taken as resolved.
Revparse_AlwaysResolves(range) == TRUE

\* Repository::revparse: Err for a range that does not resolve.
Revparse(range) == range.kind # "invalid"

\* revwalk.push / revwalk.hide with SORT_TIME on the linear history:
\* a single commit walks from it to the root, a range from..to walks from
\* `to` down to, excluding, `from`.  (For from...to the merge base is
\* pushed too; on a linear history it is `from` or one of its ancestors,
\* which hide(from) removes again, so the walk is the same.)
RECURSIVE Descend(_, _)
Descend(hi, lo) == IF hi < lo THEN <<>> ELSE <<hi>> \o Descend(hi - 1, lo)

Revwalk(range) ==
    IF range.kind = "single" THEN Descend(range.from, 1)
    ELSE Descend(range.to, range.from + 1)

(***************************************************************************)
(* Parser::parse_commit_message (src/parser.rs): the summary line must be  *)
(* "<category>: <subject>" with a known category and a non-empty subject.  *)
(***************************************************************************)
ParseOk(message) ==
    /\ Len(message) = 3
    /\ \E k \in 1..Len(Categories) : Categories[k] = message[1]
    /\ message[2] = ":"

ParsedMessage(message) == [category |-> message[1], subject |-> message[3]]

(***************************************************************************)
(* GitJournal::parse_log                                                   *)
(***************************************************************************)
UnreleasedTag == [name |-> unreleased_str, date |-> Today]

\* Mutant of StartRun: the call starts from an empty parse_result.
StartRun_FromEmpty(result) ==
    [ parse_result |-> <<>>,
      current_entries |-> <<>>,
      parsed_tags |-> 1,
      current_tag |-> [name |-> unreleased_str, date |-> Today],
      stopped |-> FALSE,
      err |-> FALSE,
      reached |-> <<>>,
      fed |-> <<>>,
      seals |-> <<>>,
      opened |-> <<>> ]

\* Mutant of StartRun: the tag counter starts at 0.
StartRun_CountsFromZero(result) ==
    [ parse_result |-> result,
      current_entries |-> <<>>,
      parsed_tags |-> 0,
      current_tag |-> [name |-> unreleased_str, date |-> Today],
      stopped |-> FALSE,
      err |-> FALSE,
      reached |-> <<>>,
      fed |-> <<>>,
      seals |-> <<>>,
      opened |-> <<>> ]

\* The locals of parse_log before the loop, on the journal's parse_result.
\* The fields after `err` only record what the call did: the commits the
\* loop reached, the ones fed to the parser, per reached commit the number
\* of seals and the tags opened by its tag loop.
StartRun(result) ==
    [ parse_result |-> result,
      current_entries |-> <<>>,
      parsed_tags |-> 1,
      current_tag |-> UnreleasedTag,
      stopped |-> FALSE,
      err |-> FALSE,
      reached |-> <<>>,
      fed |-> <<>>,
      seals |-> <<>>,
      opened |-> <<>> ]

\* Mutant of Qualifies: the filter forgets the skip pattern.
Qualifies_IgnoresPattern(tag, oid, tag_skip_pattern) ==
    tag[1] = oid

\* The tags the filter of the inner loop lets through for commit oid.
Qualifies(tag, oid, tag_skip_pattern) ==
    tag[1] = oid /\ ~Contains(tag[2], tag_skip_pattern)

MatchingTags(tags, oid, tag_skip_pattern) ==
    SelectSeq(tags, LAMBDA tag : Qualifies(tag, oid, tag_skip_pattern))

\* Mutant of Seal: the sealed entries are not cleared.
Seal_KeepsEntries(st) ==
    IF st.current_entries # <<>>
    THEN [st EXCEPT !.parse_result = Append(@, <<st.current_tag, st.current_entries>>),
                    !.seals = [@ EXCEPT ![Len(@)] = @ + 1]]
    ELSE st

\* Mutant of Seal: the sealed group is put in front of the result.
Seal_PushesFront(st) ==
    IF st.current_entries # <<>>
    THEN [st EXCEPT !.parse_result = << <<st.current_tag, st.current_entries>> >> \o @,
                    !.current_entries = <<>>,
                    !.seals = [@ EXCEPT ![Len(@)] = @ + 1]]
    ELSE st

\* Mutant of Seal: the entries are cleared without being pushed.
Seal_ClearsOnly(st) ==
    IF st.current_entries # <<>>
    THEN [st EXCEPT !.current_entries = <<>>,
                    !.seals = [@ EXCEPT ![Len(@)] = @ + 1]]
    ELSE st

\* Mutant of Seal: the group is pushed without the test for entries.
Seal_Unconditional(st) ==
    [st EXCEPT !.parse_result = Append(@, <<st.current_tag, st.current_entries>>),
               !.current_entries = <<>>,
               !.seals = [@ EXCEPT ![Len(@)] = @ + 1]]

\* `if !current_entries.is_empty() { push; clear }`
Seal(st) ==
    IF st.current_entries # <<>>
    THEN [st EXCEPT !.parse_result = Append(@, <<st.current_tag, st.current_entries>>),
                    !.current_entries = <<>>,
                    !.seals = [@ EXCEPT ![Len(@)] = @ + 1]]
    ELSE st

\* Mutant of StopHere: the counter is compared with >=, one tag too early.
StopHere_OffByOne(st, index, args) ==
    ~args.all /\ index > 0 /\ st.parsed_tags >= args.max_tags_count

\* Mutant of StopHere: the first visited commit is not exempt.
StopHere_IgnoresIndex(st, index, args) ==
    ~args.all /\ st.parsed_tags > args.max_tags_count

\* `!all && index > 0 && parsed_tags > *max_tags_count`
StopHere(st, index, args) ==
    ~args.all /\ index > 0 /\ st.parsed_tags > args.max_tags_count

\* Mutant of TagLoop: of several tags on one commit the first listed one
\* stays the current tag.
RECURSIVE TagLoop_FirstWins(_, _, _, _, _, _)
TagLoop_FirstWins(st, matching, k, index, oid, args) ==
    IF k > Len(matching) THEN st
    ELSE LET sealed == Seal(st)
         IN  IF StopHere(sealed, index, args)
             THEN [sealed EXCEPT !.stopped = TRUE]
             ELSE TagLoop_FirstWins([sealed EXCEPT
                              !.parsed_tags = @ + 1,
                              !.current_tag = IF k = 1
                                              THEN [name |-> matching[k][2],
                                                    date |-> CommitTime(oid)]
                                              ELSE @,
                              !.opened = [@ EXCEPT ![Len(@)] = Append(@, matching[k][2])]],
                          matching, k + 1, index, oid, args)

\* The inner loop over the matching tags of one commit, from the k-th on.
RECURSIVE TagLoop(_, _, _, _, _, _)
TagLoop(st, matching, k, index, oid, args) ==
    IF k > Len(matching) THEN st
    ELSE LET sealed == Seal(st)
         IN  IF StopHere(sealed, index, args)
             THEN [sealed EXCEPT !.stopped = TRUE]
             ELSE TagLoop([sealed EXCEPT
                              !.parsed_tags = @ + 1,
                              !.current_tag = [name |-> matching[k][2],
                                               date |-> CommitTime(oid)],
                              !.opened = [@ EXCEPT ![Len(@)] = Append(@, matching[k][2])]],
                          matching, k + 1, index, oid, args)

\* Mutant of ParseCommit: a message that fails to parse ends the call
\* with an error (try! instead of match).
ParseCommit_ParseErrorIsFatal(st, commit, oid, args) ==
    IF args.skip_unreleased /\ st.current_tag.name = unreleased_str THEN st
    ELSE IF commit.message = NoMessage THEN [st EXCEPT !.err = TRUE]
    ELSE IF ParseOk(commit.message)
         THEN [st EXCEPT !.current_entries = Append(@, ParsedMessage(commit.message)),
                         !.fed = Append(@, oid)]
         ELSE [st EXCEPT !.fed = Append(@, oid), !.err = TRUE]

\* The body of 'revloop after the tag loop: skip, read the message, parse.
ParseCommit(st, commit, oid, args) ==
    IF args.skip_unreleased /\ st.current_tag.name = unreleased_str THEN st
    ELSE IF commit.message = NoMessage THEN [st EXCEPT !.err = TRUE]
    ELSE IF ParseOk(commit.message)
         THEN [st EXCEPT !.current_entries = Append(@, ParsedMessage(commit.message)),
                         !.fed = Append(@, oid)]
         ELSE [st EXCEPT !.fed = Append(@, oid)]

\* 'revloop from the i-th commit of the walk (index i - 1) on.
RECURSIVE RevLoop(_, _, _, _, _, _)
RevLoop(st, repo, tags, walk, i, args) ==
    IF i > Len(walk) THEN st
    ELSE LET oid == walk[i]
             commit == repo.commits[oid]
         IN  IF ~commit.intact THEN [st EXCEPT !.err = TRUE]
             ELSE LET at == [st EXCEPT !.reached = Append(@, oid),
                                       !.seals = Append(@, 0),
                                       !.opened = Append(@, <<>>)]
                      tagged == TagLoop(at, MatchingTags(tags, oid, args.tag_skip_pattern),
                                        1, i - 1, oid, args)
                  IN  IF tagged.stopped THEN tagged
                      ELSE LET parsed == ParseCommit(tagged, commit, oid, args)
                           IN  IF parsed.err THEN parsed
                               ELSE RevLoop(parsed, repo, tags, walk, i + 1, args)

\* Mutant of ParseLogRun: the entries left over after the loop are dropped.
ParseLogRun_NoFinalSeal(repo, tags, result, args) ==
    IF ~Revparse(args.revision_range) THEN [StartRun(result) EXCEPT !.err = TRUE]
    ELSE RevLoop(StartRun(result), repo, tags, Revwalk(args.revision_range), 1, args)

\* Mutant of ParseLogRun: the entries left over are sealed on an Err return
\* as well.
ParseLogRun_SealsOnError(repo, tags, result, args) ==
    IF ~Revparse(args.revision_range) THEN [StartRun(result) EXCEPT !.err = TRUE]
    ELSE LET st == RevLoop(StartRun(result), repo, tags,
                           Revwalk(args.revision_range), 1, args)
         IN  IF st.current_entries # <<>>
             THEN [st EXCEPT !.parse_result =
                                Append(@, <<st.current_tag, st.current_entries>>)]
             ELSE st

\* One whole call: resolve the range, walk, and seal what is left over.
\* An Err return leaves the groups pushed so far in parse_result.
ParseLogRun(repo, tags, result, args) ==
    IF ~Revparse(args.revision_range) THEN [StartRun(result) EXCEPT !.err = TRUE]
    ELSE LET st == RevLoop(StartRun(result), repo, tags,
                           Revwalk(args.revision_range), 1, args)
         IN  IF st.err THEN st
             ELSE IF st.current_entries # <<>>
                  THEN [st EXCEPT !.parse_result =
                                     Append(@, <<st.current_tag, st.current_entries>>)]
                  ELSE st


(***************************************************************************)
(* GitJournal::print_log                                                   *)
(***************************************************************************)
\* String order of the categories ("feat" < "fix").
RECURSIVE CategoryRank(_, _)
CategoryRank(category, k) ==
    IF k > Len(Categories) \/ Categories[k] = category THEN k
    ELSE CategoryRank(category, k + 1)

\* Vec::sort_by on summary.category: stable, so an entry goes after every
\* entry of the same or a smaller category already placed.
RECURSIVE InsertByCategory(_, _)
InsertByCategory(sorted, e) ==
    IF sorted = <<>> THEN <<e>>
    ELSE IF CategoryRank(sorted[Len(sorted)].category, 1) <= CategoryRank(e.category, 1)
         THEN Append(sorted, e)
         ELSE Append(InsertByCategory(SubSeq(sorted, 1, Len(sorted) - 1), e),
                     sorted[Len(sorted)])

RECURSIVE SortByCategory(_, _)
SortByCategory(commits, n) ==
    IF n = 0 THEN <<>>
    ELSE InsertByCategory(SortByCategory(commits, n - 1), commits[n])

\* What one group prints: the tag, then each commit of the sorted copy,
\* its summary only or the whole commit.
PrintGroup(group, only_short) ==
    LET c == SortByCategory(group[2], Len(group[2]))
    IN  << [kind |-> "tag", tag |-> group[1]] >>
        \o [k \in 1..Len(c) |->
               [kind |-> IF only_short THEN "summary" ELSE "commit", commit |-> c[k]]]

RECURSIVE PrintLogOutput(_, _, _)
PrintLogOutput(result, k, only_short) ==
    IF k > Len(result) THEN <<>>
    ELSE PrintGroup(result[k], only_short) \o PrintLogOutput(result, k + 1, only_short)

(***************************************************************************)
(* The journal                                                             *)
(***************************************************************************)
VARIABLES
    repo,           \* GitJournal.repo: the commits and the tag references
    tags,           \* GitJournal.tags: (target, name) pairs read by new()
    parse_result,   \* GitJournal.parse_result: (tag, entries) groups
    output,         \* what the last print_log wrote
    call,           \* the last parse_log call: arguments, result before, run
    calls_left      \* parse_log calls the caller still makes

vars == <<repo, tags, parse_result, output, call, calls_left>>

Args == [ revision_range : RevisionRanges,
          tag_skip_pattern : SkipPatterns,
          max_tags_count : 0..MaxTagsCount,
          all : BOOLEAN,
          skip_unreleased : BOOLEAN ]

NoCall == [ made |-> FALSE,
            args |-> [revision_range |-> InvalidRev, tag_skip_pattern |-> <<>>,
                      max_tags_count |-> 0, all |-> FALSE, skip_unreleased |-> FALSE],
            pre |-> <<>>,
            run |-> StartRun(<<>>) ]

\* Repositories: every commit is intact and readable, its message is a
\* "feat" summary or violates the grammar; each tag name is absent or
\* points to some commit.
HealthyCommits ==
    [Oids -> [intact : {TRUE}, message : {"good", "bad"}]]

Commit(c, proto) ==
    [intact |-> proto.intact,
     message |-> CASE proto.message = "good" -> GoodMessage(c, "feat")
                   [] proto.message = "fix" -> GoodMessage(c, "fix")
                   [] proto.message = "bad" -> BadMessage(c)
                   [] OTHER -> NoMessage]

Refs == [1..Len(TagNames) -> 0..MaxCommits]

\* GitJournal::new on a repository: the tags are read once, the result is
\* empty.
New(protos, refs, n) ==
    /\ repo = [commits |-> [c \in Oids |-> Commit(c, protos[c])], refs |-> refs]
    /\ tags = NewTags(refs, 1)
    /\ parse_result = <<>>
    /\ output = <<>>
    /\ call = NoCall
    /\ calls_left = n

Init == \E protos \in HealthyCommits, refs \in Refs : New(protos, refs, 1)

ParseLog ==
    /\ calls_left > 0
    /\ \E args \in Args :
          LET run == ParseLogRun(repo, tags, parse_result, args)
          IN  /\ parse_result' = run.parse_result
              /\ call' = [made |-> TRUE, args |-> args, pre |-> parse_result, run |-> run]
    /\ calls_left' = calls_left - 1
    /\ UNCHANGED <<repo, tags, output>>

\* Mutant of PrintLog: the entries are sorted in place, in parse_result.
PrintLog_SortsInPlace ==
    /\ \E only_short \in BOOLEAN :
          output' = PrintLogOutput(parse_result, 1, only_short)
    /\ parse_result' = [k \in 1..Len(parse_result) |->
                           <<parse_result[k][1],
                             SortByCategory(parse_result[k][2], Len(parse_result[k][2]))>>]
    /\ UNCHANGED <<repo, tags, call, calls_left>>

\* print_log on a terminal that accepts every write.
PrintLog ==
    /\ \E only_short \in BOOLEAN :
          output' = PrintLogOutput(parse_result, 1, only_short)
    /\ UNCHANGED <<repo, tags, parse_result, call, calls_left>>

Next == ParseLog \/ PrintLog

Spec == Init /\ [][Next]_vars

\* A journal that is parsed up to MaxCalls times: every commit parses, v1
\* sits below HEAD, v2rc is absent or sits on the root.
RepeatRefs == {refs \in Refs : refs[1] = 0 /\ refs[2] = HEAD - 1 /\ refs[3] \in {0, 1}}

InitRepeat ==
    \E refs \in RepeatRefs :
        New([c \in Oids |-> [intact |-> TRUE, message |-> "good"]], refs, MaxCalls)

SpecRepeat == InitRepeat /\ [][Next]_vars

\* Repositories the reader can fail on: a commit is intact with a "feat"
\* or a "fix" summary, intact with a message that is not UTF-8, or a
\* damaged object that find_commit cannot load.
FaultyCommits ==
    [Oids -> { [intact |-> TRUE, message |-> "good"],
               [intact |-> TRUE, message |-> "fix"],
               [intact |-> TRUE, message |-> "none"],
               [intact |-> FALSE, message |-> "none"] }]

InitFaulty ==
    \E protos \in FaultyCommits, refs \in RepeatRefs : New(protos, refs, 1)

SpecFaulty == InitFaulty /\ [][Next]_vars


(***************************************************************************)
(* Vocabulary of the properties                                            *)
(***************************************************************************)
LastArgs == call.args
LastRun == call.run
\* The last call returned Ok(()).
ReturnedOk == call.made /\ ~LastRun.err
\* The last call was made on a journal whose parse_result was empty.
Fresh == call.made /\ call.pre = <<>>
\* The traversal of the last call.
Walk == IF Revparse(LastArgs.revision_range) THEN Revwalk(LastArgs.revision_range) ELSE <<>>

Parses(oid) == ParseOk(repo.commits[oid].message)
EntryOf(oid) == ParsedMessage(repo.commits[oid].message)
\* The entries of the commits of oids that parse, in the order of oids.
EntriesOf(oids) ==
    LET good == SelectSeq(oids, Parses)
    IN  [k \in 1..Len(good) |-> EntryOf(good[k])]

TagV1 == <<"v", "1">>

\* C1: the scenario of the spec: walk C3, C2, C1, one tag v1.0 on C2, every
\* message parses, empty skip pattern, all = true, skip_unreleased = false,
\* fresh journal.
C1_Scenario ==
    /\ Fresh
    /\ LastArgs.revision_range = SingleRev(HEAD)
    /\ LastArgs.tag_skip_pattern = <<>>
    /\ LastArgs.all
    /\ ~LastArgs.skip_unreleased
    /\ tags = << <<2, TagV1>> >>
    /\ \A c \in Oids : Parses(c)

\* C1 (as claimed): in the scenario the result is exactly Unreleased with
\* the commits above C2, then v1.0 with [C2, C1]: the empty skip pattern
\* disqualifies no tag.
C1_EmptyPatternKeepsTag ==
    C1_Scenario =>
        parse_result = << <<UnreleasedTag, EntriesOf(Descend(HEAD, 3))>>,
                          <<[name |-> TagV1, date |-> CommitTime(2)], EntriesOf(<<2, 1>>)>> >>


\* The tags of the journal that pass the filter for the last call's pattern.
QualifyingAt(oid) == MatchingTags(tags, oid, LastArgs.tag_skip_pattern)
\* The positions of the walk whose commit carries a qualifying tag.
TaggedPositions == {i \in 1..Len(Walk) : QualifyingAt(Walk[i]) # <<>>}

RemoveAt(seq, k) == SubSeq(seq, 1, k - 1) \o SubSeq(seq, k + 1, Len(seq))

\* C2: a tag whose name contains the skip pattern changes nothing: the
\* call seals, opens, counts, stops and returns exactly as it does on the
\* same history without that tag, and the stored result is that result.
C2_SkippedTagIsInert ==
    call.made =>
        \A k \in 1..Len(tags) :
            Contains(tags[k][2], LastArgs.tag_skip_pattern) =>
                /\ ParseLogRun(repo, RemoveAt(tags, k), call.pre, LastArgs) = LastRun
                /\ parse_result = LastRun.parse_result
                /\ \A i \in 1..Len(LastRun.opened) :
                      \A j \in 1..Len(LastRun.opened[i]) :
                          LastRun.opened[i][j] # tags[k][2]

\* C2 witness: a call with pattern "rc" walked over the commit tagged
\* v2rc and over a commit whose tag it opened, and produced two groups.
C2_Witness ==
    /\ call.made
    /\ LastArgs.tag_skip_pattern = <<"r", "c">>
    /\ \E k \in 1..Len(tags), i \in 1..Len(LastRun.reached) :
          /\ tags[k][2] = <<"v", "2", "r", "c">>
          /\ tags[k][1] = LastRun.reached[i]
          /\ Parses(tags[k][1])
    /\ \E i \in 1..Len(LastRun.opened) : LastRun.opened[i] # <<>>
    /\ Len(parse_result) = 2


\* The groups one call added to parse_result.
Added == SubSeq(parse_result, Len(call.pre) + 1, Len(parse_result))

\* C3 (as claimed): without a qualifying tag on the walk a fresh journal
\* ends with exactly one group, Unreleased, holding every parsed commit of
\* the walk in order; with an empty walk it ends with no group.
C3_OneUnreleasedGroup_AsClaimed ==
    (Fresh /\ Revparse(LastArgs.revision_range) /\ TaggedPositions = {}) =>
        IF Walk = <<>> THEN parse_result = <<>>
        ELSE parse_result = << <<UnreleasedTag, EntriesOf(Walk)>> >>

\* C3 (amended): ... with skip_unreleased = false and at least one commit
\* that parses, exactly that one Unreleased group; with skip_unreleased =
\* true, or when no commit of the walk parses, no group at all.
C3_OneUnreleasedGroup ==
    (Fresh /\ Revparse(LastArgs.revision_range) /\ TaggedPositions = {}) =>
        /\ ReturnedOk
        /\ IF LastArgs.skip_unreleased \/ EntriesOf(Walk) = <<>>
           THEN parse_result = <<>>
           ELSE parse_result = << <<UnreleasedTag, EntriesOf(Walk)>> >>

\* C3 witness: a walk over a tagged commit whose tag the pattern skips,
\* with a commit that fails to parse, ended in one Unreleased group of two
\* or more entries.
C3_Witness ==
    /\ Fresh
    /\ TaggedPositions = {}
    /\ \E i \in 1..Len(Walk) : \E k \in 1..Len(tags) : tags[k][1] = Walk[i]
    /\ \E i \in 1..Len(Walk) : ~Parses(Walk[i])
    /\ Len(parse_result) = 1
    /\ parse_result[1][1] = UnreleasedTag
    /\ Len(parse_result[1][2]) >= 2


IsSentinel(group) == group[1] = UnreleasedTag
\* The positions of the groups of the result that a tag names.
TagGroups == {k \in 1..Len(parse_result) : ~IsSentinel(parse_result[k])}
\* The commits that have an entry in a group the last call added.
Contributed ==
    {c \in Oids : \E k \in 1..Len(Added) : \E j \in 1..Len(Added[k][2]) :
                     Parses(c) /\ Added[k][2][j] = EntryOf(c)}

Smallest(S) == CHOOSE x \in S : \A y \in S : x <= y
FirstTagged == Smallest(TaggedPositions)
SecondTagged == Smallest(TaggedPositions \ {FirstTagged})
\* The number of qualifying tags on the commits of the walk.
RECURSIVE TagsOnWalk(_)
TagsOnWalk(i) ==
    IF i > Len(Walk) THEN 0 ELSE Len(QualifyingAt(Walk[i])) + TagsOnWalk(i + 1)

\* The result is an optional Unreleased group followed by an optional
\* group of a tag.
AtMostOneRelease ==
    \/ parse_result = <<>>
    \/ Len(parse_result) = 1
    \/ Len(parse_result) = 2 /\ IsSentinel(parse_result[1]) /\ ~IsSentinel(parse_result[2])

\* The case of C4: a bounded call with max_tags_count = 1 on a fresh
\* journal whose walk meets 3 qualifying tags.
C4_Case ==
    /\ Fresh
    /\ Revparse(LastArgs.revision_range)
    /\ ~LastArgs.all
    /\ LastArgs.max_tags_count = 1
    /\ TagsOnWalk(1) = 3

C4_StopPosition ==
    IF TaggedPositions = {} THEN 0
    ELSE IF FirstTagged > 1 /\ Len(QualifyingAt(Walk[FirstTagged])) >= 2 THEN FirstTagged
    ELSE IF Cardinality(TaggedPositions) >= 2 THEN SecondTagged
    ELSE 0

Last(seq) == seq[Len(seq)]
\* The position after FirstTagged at which the next tagged commit sits,
\* or the end of the walk.
ReleaseEnd ==
    IF Cardinality(TaggedPositions) >= 2 THEN SecondTagged - 1 ELSE Len(Walk)
\* The newest release of the walk: the commits from the first tagged
\* commit down to, excluding, the next tagged commit, under the last
\* listed qualifying tag of the first tagged commit.
LastRelease ==
    << [name |-> Last(QualifyingAt(Walk[FirstTagged]))[2],
        date |-> CommitTime(Walk[FirstTagged])],
       EntriesOf(SubSeq(Walk, FirstTagged, ReleaseEnd)) >>

\* The documented call: parse_log(range, pattern, &1, &false, &true) on a
\* fresh journal.
C5_Case ==
    /\ Fresh
    /\ Revparse(LastArgs.revision_range)
    /\ ~LastArgs.all
    /\ LastArgs.max_tags_count = 1
    /\ LastArgs.skip_unreleased

\* C5 (as claimed): the documented call retrieves everything in the last
\* qualifying tag: the result is the one group of the newest release with
\* the entries of its commits, and nothing else (no group when none of its
\* commits parses or the walk has no qualifying tag).
C5_LastTagOnly ==
    C5_Case =>
        IF TaggedPositions = {} THEN parse_result = <<>>
        ELSE IF LastRelease[2] = <<>> THEN parse_result = <<>>
        ELSE parse_result = <<LastRelease>>

\* C5 outside the two defects it runs into (C10: a stop between the tags
\* of one commit; C13: a tag named "Unreleased" is taken for the sentinel).
C5_LastTagOnly_ElseHolds ==
    (/\ C5_Case
     /\ TaggedPositions # {}
     /\ ~(FirstTagged > 1 /\ Len(QualifyingAt(Walk[FirstTagged])) >= 2)
     /\ LastRelease[1].name # unreleased_str) =>
        IF LastRelease[2] = <<>> THEN parse_result = <<>>
        ELSE parse_result = <<LastRelease>>


\* The repository with the message of commit c replaced by one that parses.
Repaired(c) ==
    [repo EXCEPT !.commits[c].message = GoodMessage(c, "feat")]

\* C6: a commit whose message fails to parse has no entry in any group,
\* and the call reaches and feeds the same commits, opens the same tags,
\* ends with the same tag counter, the same stop decision and the same
\* Ok/Err as on the history where that message parses.
C6_ParseFailureIsLocal ==
    call.made =>
        \A c \in Oids :
            ~Parses(c) =>
                LET other == ParseLogRun(Repaired(c), tags, call.pre, LastArgs)
                IN  /\ other.reached = LastRun.reached
                    /\ other.fed = LastRun.fed
                    /\ other.opened = LastRun.opened
                    /\ other.parsed_tags = LastRun.parsed_tags
                    /\ other.stopped = LastRun.stopped
                    /\ other.err = LastRun.err
                    /\ \A k \in 1..Len(parse_result) :
                          \A j \in 1..Len(parse_result[k][2]) :
                              parse_result[k][2][j].subject # ToString(c)

\* C6 witness: the parser was fed a commit that failed to parse, then a
\* later commit that parsed, across a tag opened in between.
C6_Witness ==
    /\ ReturnedOk
    /\ \E i, j \in 1..Len(LastRun.fed) :
          /\ i < j
          /\ ~Parses(LastRun.fed[i])
          /\ Parses(LastRun.fed[j])
          /\ LastRun.fed[j] \in Contributed
    /\ LastRun.parsed_tags >= 2

RECURSIVE Flatten(_, _)
Flatten(groups, k) ==
    IF k > Len(groups) THEN <<>> ELSE groups[k][2] \o Flatten(groups, k + 1)

\* C7: after a call with all = true and skip_unreleased = false on a fresh
\* journal, the entries of the groups, concatenated in result order, are
\* the entries of the parsed commits of the walk in walk order.
C7_EntriesAreTheWalk ==
    (Fresh /\ Revparse(LastArgs.revision_range) /\ LastArgs.all /\ ~LastArgs.skip_unreleased) =>
        /\ ReturnedOk
        /\ Flatten(parse_result, 1) = EntriesOf(Walk)

\* C7 witness: such a call produced at least two groups from three parsed
\* commits.
C7_Witness ==
    /\ Fresh
    /\ LastArgs.all
    /\ ~LastArgs.skip_unreleased
    /\ Len(parse_result) >= 2
    /\ Len(EntriesOf(Walk)) >= 3


\* The qualifying tags of the walk as ParsedTags, in the order the walk
\* meets them (walk order, then listed order).
RECURSIVE EncounterOrder(_)
EncounterOrder(i) ==
    IF i > Len(Walk) THEN <<>>
    ELSE [k \in 1..Len(QualifyingAt(Walk[i])) |->
             [name |-> QualifyingAt(Walk[i])[k][2], date |-> CommitTime(Walk[i])]]
         \o EncounterOrder(i + 1)

\* a, from its i-th element on, is a subsequence of b from its j-th on.
RECURSIVE IsSubseq(_, _, _, _)
IsSubseq(a, i, b, j) ==
    IF i > Len(a) THEN TRUE
    ELSE IF j > Len(b) THEN FALSE
    ELSE IF a[i] = b[j] THEN IsSubseq(a, i + 1, b, j + 1)
    ELSE IsSubseq(a, i, b, j + 1)

GroupTags == [k \in 1..Len(parse_result) |-> parse_result[k][1]]

\* C8 (as claimed): on a fresh journal the groups follow the order in
\* which the walk meets their tags, and no group but the first is named
\* "Unreleased".
C8_GroupOrder_AsClaimed ==
    Fresh =>
        /\ IsSubseq(GroupTags, 1, <<UnreleasedTag>> \o EncounterOrder(1), 1)
        /\ \A k \in 2..Len(parse_result) : parse_result[k][1].name # unreleased_str

\* C8 (amended): on a fresh journal the groups follow the order in which
\* the walk meets their tags, and only the first group can be the group of
\* the sentinel: every later group is the group of a tag of the walk, which
\* may itself be named "Unreleased".
C8_GroupOrder ==
    Fresh =>
        /\ IsSubseq(GroupTags, 1, <<UnreleasedTag>> \o EncounterOrder(1), 1)
        /\ IsSubseq(SubSeq(GroupTags, 2, Len(GroupTags)), 1, EncounterOrder(1), 1)
        /\ \A k \in 2..Len(parse_result) : ~IsSentinel(parse_result[k])

\* C8 witness: the sentinel group, then the groups of two tags, the second
\* of them the tag named "Unreleased".
C8_Witness ==
    /\ Fresh
    /\ Len(parse_result) = 3
    /\ IsSentinel(parse_result[1])
    /\ parse_result[3][1].name = unreleased_str

\* C9: a call whose revision range does not resolve returns an error,
\* reaches no commit and leaves parse_result as it was.
C9_UnresolvedRange ==
    (call.made /\ LastArgs.revision_range = InvalidRev) =>
        /\ LastRun.err
        /\ LastRun.reached = <<>>
        /\ LastRun.fed = <<>>
        /\ parse_result = call.pre

\* C9 witness: the call with the unresolved range came after a call that
\* had left two groups.
C9_Witness ==
    /\ call.made
    /\ LastArgs.revision_range = InvalidRev
    /\ LastRun.err
    /\ Len(call.pre) = 2
    /\ parse_result = call.pre


\* The names of a sequence of (target, name) tags.
NamesOf(matching) == [k \in 1..Len(matching) |-> matching[k][2]]

\* Commit c has its entry in a group the last call added under tag.
InGroupOf(c, tag) ==
    \E k \in 1..Len(Added) :
        /\ Added[k][1] = tag
        /\ \E j \in 1..Len(Added[k][2]) : Added[k][2][j] = EntryOf(c)

\* What C10 says of the i-th reached commit when it carries several
\* qualifying tags: all of them are opened in listed order, with at most
\* one seal, and the commit is parsed into the group of the last one.
C10_BatchDone(i) ==
    LET c == LastRun.reached[i]
        matching == QualifyingAt(c)
    IN  /\ LastRun.opened[i] = NamesOf(matching)
        /\ LastRun.seals[i] <= 1
        /\ \E j \in 1..Len(LastRun.fed) : LastRun.fed[j] = c
        /\ Parses(c) => InGroupOf(c, [name |-> Last(matching)[2], date |-> CommitTime(c)])

\* C10 (as claimed): for every all and max_tags_count, a commit with
\* several qualifying tags whose first tag the call opened has the whole
\* batch processed as C10_BatchDone says.
C10_CoLocatedTags ==
    (ReturnedOk /\ ~LastArgs.skip_unreleased) =>
        \A i \in 1..Len(LastRun.reached) :
            (Len(QualifyingAt(LastRun.reached[i])) >= 2 /\ LastRun.opened[i] # <<>>) =>
                C10_BatchDone(i)

\* C10 where the code does what is claimed: with all = true, or when the
\* commit is the first visited.
C10_CoLocatedTags_Unbounded ==
    (ReturnedOk /\ ~LastArgs.skip_unreleased) =>
        \A i \in 1..Len(LastRun.reached) :
            (Len(QualifyingAt(LastRun.reached[i])) >= 2 /\ (LastArgs.all \/ i = 1)) =>
                C10_BatchDone(i)


\* The number of tags the last call opened on the reached commits before
\* the i-th.
RECURSIVE OpenedBefore(_)
OpenedBefore(i) ==
    IF i <= 1 THEN 0 ELSE OpenedBefore(i - 1) + Len(LastRun.opened[i - 1])

Min(a, b) == IF a <= b THEN a ELSE b
Max(a, b) == IF a >= b THEN a ELSE b

\* What a bounded call does at the i-th reached commit when it stops at a
\* tag exactly if `already opened + slack > max_tags_count`: it opens the
\* matching tags in listed order while that is false, stops at the first
\* tag for which it is true, and the first visited commit has all its
\* tags opened.
C11_StopsWhen(i, slack) ==
    LET matching == QualifyingAt(LastRun.reached[i])
        room == Max(0, LastArgs.max_tags_count + 1 - slack - OpenedBefore(i))
        n == IF i = 1 THEN Len(matching) ELSE Min(Len(matching), room)
    IN  /\ LastRun.opened[i] = SubSeq(NamesOf(matching), 1, n)
        /\ n < Len(matching) => (LastRun.stopped /\ i = Len(LastRun.reached))
        /\ (LastRun.stopped /\ i = Len(LastRun.reached)) => n < Len(matching)

\* C11 (as claimed): a bounded call stops at a qualifying tag of a commit
\* that is not the first visited exactly when the number of tags already
\* opened exceeds max_tags_count; otherwise it opens the tag and adds one
\* to the counter; the tags of the first visited commit are always opened.
C11_StopRule_AsClaimed ==
    (ReturnedOk /\ ~LastArgs.all) =>
        /\ \A i \in 1..Len(LastRun.reached) : C11_StopsWhen(i, 0)
        /\ LastRun.parsed_tags = 1 + OpenedBefore(Len(LastRun.reached) + 1)

\* C11 (amended): ... exactly when the number of tags already opened plus
\* one exceeds max_tags_count, that is, when max_tags_count tags or more
\* are already open (the counter starts at 1); the rest as claimed.
C11_StopRule ==
    (ReturnedOk /\ ~LastArgs.all) =>
        /\ \A i \in 1..Len(LastRun.reached) : C11_StopsWhen(i, 1)
        /\ LastRun.parsed_tags = 1 + OpenedBefore(Len(LastRun.reached) + 1)

\* C11 witness: a bounded call opened the tag of the first visited commit
\* and a tag of a later commit, and stopped at a third.
C11_Witness ==
    /\ ReturnedOk
    /\ ~LastArgs.all
    /\ LastRun.stopped
    /\ Len(LastRun.reached) = 3
    /\ LastRun.opened[1] # <<>>
    /\ LastRun.opened[2] # <<>>
    /\ LastRun.parsed_tags = 3


\* The position of the walk at which the last call stopped, and the tag it
\* stopped at: the first matching tag of that commit it did not open.
BoundaryPosition == Len(LastRun.reached)
BoundaryTag ==
    LET c == LastRun.reached[BoundaryPosition]
    IN  [name |-> QualifyingAt(c)[Len(LastRun.opened[BoundaryPosition]) + 1][2],
         date |-> CommitTime(c)]

\* C12: when a bounded call stops at a boundary tag, every entry
\* accumulated before is in the result, nothing is left for the seal after
\* the loop, no group carries the boundary tag, and neither the boundary
\* commit nor a later commit of the walk was fed to the parser or has an
\* entry.
C12_StopKeepsSealed ==
    (ReturnedOk /\ LastRun.stopped) =>
        /\ Flatten(Added, 1) = EntriesOf(LastRun.fed)
        /\ LastRun.current_entries = <<>>
        /\ parse_result = LastRun.parse_result
        /\ \A k \in 1..Len(Added) : Added[k][1] # BoundaryTag
        /\ \A i \in BoundaryPosition..Len(Walk) :
              /\ Walk[i] \notin Contributed
              /\ \A j \in 1..Len(LastRun.fed) : LastRun.fed[j] # Walk[i]

\* C12 witness: the call stopped at the last commit of the walk, which
\* parses, sealing there the second of two groups.
C12_Witness ==
    /\ ReturnedOk
    /\ LastRun.stopped
    /\ BoundaryPosition = Len(Walk)
    /\ Parses(Walk[BoundaryPosition])
    /\ Len(Added) = 2
    /\ LastRun.seals[BoundaryPosition] = 1


WasFed(c) == \E j \in 1..Len(LastRun.fed) : LastRun.fed[j] = c

\* The reached commits the call went past its tag loop for: all of them
\* but the commit it stopped at.
PassedPositions ==
    {i \in 1..Len(LastRun.reached) : ~(LastRun.stopped /\ i = BoundaryPosition)}

\* C13 (as claimed): with skip_unreleased = true a commit is skipped
\* exactly when no qualifying tag has been opened up to and including it;
\* from the first opened tag on every commit is fed to the parser,
\* whatever the tag's name.
C13_SkipUntilFirstTag ==
    (ReturnedOk /\ LastArgs.skip_unreleased) =>
        \A i \in PassedPositions :
            WasFed(LastRun.reached[i]) <=> (OpenedBefore(i + 1) > 0)

\* The name of the tag that is current after the tag loop of the i-th
\* reached commit: the last one opened so far, or the sentinel's.
RECURSIVE CurrentNameAt(_)
CurrentNameAt(i) ==
    IF i = 0 THEN unreleased_str
    ELSE IF LastRun.opened[i] # <<>> THEN Last(LastRun.opened[i])
    ELSE CurrentNameAt(i - 1)

\* C13 as the code has it: a commit is skipped exactly when the current
\* tag is named "Unreleased", be it the sentinel or a tag of that name.
C13_SkipByName ==
    (ReturnedOk /\ LastArgs.skip_unreleased) =>
        \A i \in PassedPositions :
            WasFed(LastRun.reached[i]) <=> (CurrentNameAt(i) # unreleased_str)


\* The positions of the walk, up to the i-th, whose commit carries a
\* qualifying tag.
TaggedUpTo(i) == {j \in TaggedPositions : j <= i}
Largest(S) == CHOOSE x \in S : \A y \in S : x >= y

\* The tag a commit at position i of the walk belongs to: the last listed
\* qualifying tag of the nearest tagged commit at or before it, or the
\* sentinel when there is none.
NearestTag(i) ==
    IF TaggedUpTo(i) = {} THEN UnreleasedTag
    ELSE LET j == Largest(TaggedUpTo(i))
         IN  [name |-> Last(QualifyingAt(Walk[j]))[2], date |-> CommitTime(Walk[j])]

\* The places (group, entry) of the added groups that hold c's entry.
PlacesOf(c) ==
    {p \in (1..Len(Added)) \X (1..MaxCommits) :
        p[2] <= Len(Added[p[1]][2]) /\ Added[p[1]][2][p[2]] = EntryOf(c)}

\* C14: every commit that was fed to the parser and parsed has its entry
\* in exactly one place of the result of a call on a fresh journal, in the
\* group of the nearest qualifying tag at or before it in the walk, or in
\* the sentinel's group when no qualifying tag precedes it.
C14_NearestTagGroup ==
    (ReturnedOk /\ Fresh) =>
        \A i \in 1..Len(Walk) :
            (WasFed(Walk[i]) /\ Parses(Walk[i])) =>
                /\ Cardinality(PlacesOf(Walk[i])) = 1
                /\ \A p \in PlacesOf(Walk[i]) : Added[p[1]][1] = NearestTag(i)

\* C14 witness: a commit with two qualifying tags was parsed into the
\* group of the last listed one, after an untagged commit went to the
\* sentinel's group.
C14_Witness ==
    /\ ReturnedOk
    /\ Fresh
    /\ Len(Added) = 2
    /\ IsSentinel(Added[1])
    /\ \E i \in 2..Len(Walk) :
          /\ Len(QualifyingAt(Walk[i])) = 2
          /\ WasFed(Walk[i])
          /\ Parses(Walk[i])
          /\ Added[2][1] = NearestTag(i)


\* Where the k-th group of result starts in what print_log writes.
RECURSIVE GroupStart(_, _)
GroupStart(result, k) ==
    IF k <= 1 THEN 1
    ELSE GroupStart(result, k - 1) + 1 + Len(result[k - 1][2])

\* The position of entry e in the sequence entries (0 when absent).
PositionIn(entries, e) ==
    IF \E j \in 1..Len(entries) : entries[j] = e
    THEN CHOOSE j \in 1..Len(entries) : entries[j] = e
    ELSE 0

\* out is what print_log writes for result: per group, in result order,
\* the tag and then all entries of the group, each once, by ascending
\* category, entries of the same category in the order of the group; all
\* of them as summaries or all of them in full.
IsStableRendering(result, out) ==
    /\ Len(out) = GroupStart(result, Len(result) + 1) - 1
    /\ \E kind \in {"summary", "commit"} :
          \A k \in 1..Len(result) :
              LET entries == result[k][2]
                  at == GroupStart(result, k)
                  line(j) == out[at + j]
              IN  /\ out[at] = [kind |-> "tag", tag |-> result[k][1]]
                  /\ \A j \in 1..Len(entries) :
                        /\ line(j).kind = kind
                        /\ PositionIn(entries, line(j).commit) # 0
                  /\ \A i, j \in 1..Len(entries) :
                        i < j =>
                            /\ line(i).commit # line(j).commit
                            /\ CategoryRank(line(i).commit.category, 1)
                                  <= CategoryRank(line(j).commit.category, 1)
                            /\ line(i).commit.category = line(j).commit.category =>
                                  PositionIn(entries, line(i).commit)
                                     < PositionIn(entries, line(j).commit)

\* C15: a print_log step leaves parse_result as it is and writes, per
\* group, the entries sorted by category with entries of one category in
\* traversal order; so whatever runs later finds the groups in their
\* original order.
C15_PrintLeavesResult ==
    [][PrintLog => (parse_result' = parse_result
                    /\ IsStableRendering(parse_result, output'))]_vars

\* C15 witness: a group holds a "fix", a "feat" and a "fix" entry in this
\* order, and print_log has written the "feat" entry first and the two
\* "fix" entries in their traversal order.
C15_Witness ==
    /\ Len(parse_result) = 1
    /\ Len(parse_result[1][2]) = 3
    /\ parse_result[1][2][1].category = "fix"
    /\ parse_result[1][2][2].category = "feat"
    /\ parse_result[1][2][3].category = "fix"
    /\ Len(output) = 4
    /\ output[2].commit = parse_result[1][2][2]
    /\ output[3].commit = parse_result[1][2][1]
    /\ output[4].commit = parse_result[1][2][3]


\* C16: every group stored in parse_result has at least one entry.
C16_NoEmptyGroup ==
    \A k \in 1..Len(parse_result) : parse_result[k][2] # <<>>

\* C16 witness: the call opened two tags on one commit and a tag on a
\* later commit, no commit of the first release parsed, and the result
\* holds only the group of the later tag.
C16_Witness ==
    /\ ReturnedOk
    /\ Len(LastRun.reached) >= 2
    /\ Len(LastRun.opened[1]) = 2
    /\ ~Parses(LastRun.reached[1])
    /\ Len(LastRun.opened[2]) = 1
    /\ Len(parse_result) = 1
    /\ parse_result[1][1].name = LastRun.opened[2][1]


\* The positions of the groups the last call added that a tag names.
AddedTagGroups == {k \in 1..Len(Added) : ~IsSentinel(Added[k])}

\* C17: a bounded call adds at most max(max_tags_count, 1) groups named by
\* a tag.
C17_TagGroupBound ==
    (call.made /\ ~LastArgs.all) =>
        Cardinality(AddedTagGroups) <= Max(LastArgs.max_tags_count, 1)

\* C17 witness: a bounded call with max_tags_count = 2 added the groups of
\* two tags and stopped at a third.
C17_Witness ==
    /\ ReturnedOk
    /\ ~LastArgs.all
    /\ LastArgs.max_tags_count = 2
    /\ LastRun.stopped
    /\ Cardinality(AddedTagGroups) = 2

\* C17 at its lower end: a bounded call with max_tags_count = 0 added the
\* group of the tags of the first visited commit.
C17_ZeroStillOne ==
    /\ ReturnedOk
    /\ ~LastArgs.all
    /\ LastArgs.max_tags_count = 0
    /\ Cardinality(AddedTagGroups) = 1


\* What the last call pushes on a journal whose parse_result is empty.
ResultOnEmpty == ParseLogRun(repo, tags, <<>>, LastArgs).parse_result

\* C18: parse_log only appends: after a call the groups present before it
\* are the first groups of parse_result, unchanged, and they are followed
\* by exactly the groups the same call pushes on an empty parse_result.
C18_OnlyAppends ==
    call.made =>
        /\ Len(parse_result) >= Len(call.pre)
        /\ SubSeq(parse_result, 1, Len(call.pre)) = call.pre
        /\ Added = ResultOnEmpty

\* C18 witness: a call on a journal that already held a group returned Ok
\* and added a group.
C18_Witness ==
    /\ ReturnedOk
    /\ call.pre # <<>>
    /\ Added # <<>>


\* The reader cannot load the commit, or cannot read its message.
Unreadable(oid) ==
    ~repo.commits[oid].intact \/ repo.commits[oid].message = NoMessage

RECURSIVE SumFrom(_, _)
SumFrom(counts, k) ==
    IF k > Len(counts) THEN 0 ELSE counts[k] + SumFrom(counts, k + 1)

\* The number of groups the last call pushed inside 'revloop.
SealedInLoop == SumFrom(LastRun.seals, 1)

\* C19: a call on a resolved range that walks every commit and skips none
\* returns an error when the walk holds a commit the reader cannot read;
\* after an error in the walk the groups present before the call and the
\* groups sealed in the loop are parse_result, and the entries read for the
\* open group are in none of them.
C19_ReaderFailure ==
    (call.made /\ LastArgs.revision_range # InvalidRev) =>
        /\ (/\ LastArgs.all
            /\ ~LastArgs.skip_unreleased
            /\ \E i \in 1..Len(Walk) : Unreadable(Walk[i])) => LastRun.err
        /\ LastRun.err =>
              /\ SubSeq(parse_result, 1, Len(call.pre)) = call.pre
              /\ Len(Added) = SealedInLoop
              /\ Flatten(Added, 1) \o LastRun.current_entries = EntriesOf(LastRun.fed)

\* C19 witness: the reader failed after the call had sealed a group and
\* read an entry for the next one; the call returned an error and that
\* entry is not in parse_result.
C19_Witness ==
    /\ call.made
    /\ LastArgs.revision_range # InvalidRev
    /\ LastRun.err
    /\ \E i \in 1..Len(Walk) : Unreadable(Walk[i])
    /\ Added # <<>>
    /\ LastRun.current_entries # <<>>
    /\ Len(Flatten(parse_result, 1)) < Len(EntriesOf(LastRun.fed))

====
